---- MODULE Spec2Model ----
(***************************************************************************)
(* A model of the two programs of the repository:                          *)
(*   language-model/ngrams.py      the n-gram pipeline (main,              *)
(*                                 get_ngram_tuples, get_ngrams_from_line, *)
(*                                 print_to_file)                          *)
(*   kaldi-style/kaz_syllable_split.py   the four rule passes over a word  *)
(*                                                                         *)
(* Text is a sequence of one-character strings.  A token is such a         *)
(* sequence too (possibly empty: 'a  b'.split(' ') holds an empty token).  *)
(* A Python dict is a sequence of <<key, value>> pairs with distinct keys, *)
(* in insertion order, which is the order .items() and sorted() see.       *)
(* A log-probability np.log(a/b) is the pair <<a, b>>; pairs are compared  *)
(* as the fractions they stand for (the logarithm is monotone).            *)
(***************************************************************************)
EXTENDS Naturals, Integers, Sequences, FiniteSets, TLC

VARIABLES
    pc,                 \* position of the running program
    lines,              \* ngrams.py main: the text read from the corpus file
    lenSentenceCutoff,  \* get_ngram_tuples: its cutoff argument
    backoff,            \* main: args.backoff
    todo,               \* get_ngram_tuples: lines the for loop has not seen yet
    unigrams, bigrams, trigrams,
    uniCountDict, biCountDict, triCountDict,
    N,
    uniProbDict, biMLEdict, triMLEdict,
    uniBowDict, biBowDict,
    outFile,            \* print_to_file: what was written to the stream so far
    disk,               \* the file under the output name, as a reader finds it once
                        \* the stream is closed (what is flushed before is not known)
    tokens, n, ngrams,  \* get_ngrams_from_line: arguments and result
    word, i, j, lenWord \* kaz_syllable_split.py: the loop variables

lmVars == <<lines, lenSentenceCutoff, backoff, todo, unigrams, bigrams, trigrams,
            uniCountDict, biCountDict, triCountDict, N,
            uniProbDict, biMLEdict, triMLEdict, uniBowDict, biBowDict>>
ioVars == <<outFile, disk>>
fnVars == <<tokens, n, ngrams>>
sylVars == <<word, i, j, lenWord>>
vars == <<pc, lmVars, ioVars, fnVars, sylVars>>

----------------------------------------------------------------------------
(* Bounds of the model *)

MaxCorpusLen == 7
MaxFileLen == 5
MaxCutoff == 4
MaxTokens == 4
MaxWordLen == 5

----------------------------------------------------------------------------
(* Python built-ins used by the code *)

\* s[lo:hi] for 0 <= lo, hi: the elements at the 0-based places lo..hi-1 that exist
Slice(s, lo, hi) ==
    LET top == IF hi < Len(s) THEN hi ELSE Len(s)
    IN  IF top <= lo THEN <<>> ELSE [k \in 1..(top - lo) |-> s[lo + k]]

RECURSIVE SplitFrom(_, _, _, _, _)
SplitFrom(s, sep, k, cur, acc) ==
    IF k > Len(s) THEN Append(acc, cur)
    ELSE IF s[k] = sep THEN SplitFrom(s, sep, k + 1, <<>>, Append(acc, cur))
    ELSE SplitFrom(s, sep, k + 1, Append(cur, s[k]), acc)

\* s.split(sep) with a one-character separator: never empty, keeps empty pieces
Split(s, sep) == SplitFrom(s, sep, 1, <<>>, <<>>)

\* all sequences over S of length 0..m
RECURSIVE SeqsUpTo(_, _)
SeqsUpTo(S, m) ==
    IF m = 0 THEN {<<>>}
    ELSE LET shorter == SeqsUpTo(S, m - 1)
         IN  shorter \cup {Append(s, x) : s \in {t \in shorter : Len(t) = m - 1}, x \in S}

----------------------------------------------------------------------------
(* language-model/ngrams.py *)

lenSentenceCutoffMain == 4

get_ngrams_from_line_drop_last(toks, ord) ==
    IF ord = 1
    THEN IF Len(toks) <= 1 THEN <<>> ELSE [k \in 1..(Len(toks) - 1) |-> <<toks[k]>>]
    ELSE LET cnt == Len(toks) - ord
         IN  IF cnt <= 0 THEN <<>>
             ELSE [k \in 1..cnt |-> Slice(toks, k - 1, k - 1 + ord)]

get_ngrams_from_line(toks, ord) ==
    IF ord = 1
    THEN IF Len(toks) = 0 THEN <<>> ELSE [k \in 1..Len(toks) |-> <<toks[k]>>]
    ELSE LET cnt == Len(toks) - (ord - 1)
         IN  IF cnt <= 0 THEN <<>>
             ELSE [k \in 1..cnt |-> Slice(toks, k - 1, k - 1 + ord)]

LongEnoughOrEqual(line, cutoff) == Len(line) >= cutoff

\* line 62: if len(line) > lenSentenceCutoff
LongEnough(line, cutoff) == Len(line) > cutoff


----------------------------------------------------------------------------
(* corpus_stats.py and backoff.py are imported by ngrams.py (lines 35-36);  *)
(* their functions are modelled from sections 4.3 to 4.5 of the             *)
(* specification, not from code.                                            *)

Keys(dict) == {dict[k][1] : k \in 1..Len(dict)}

\* the value stored under key, 0 when the key is absent
Lookup(dict, key) ==
    IF key \in Keys(dict)
    THEN dict[CHOOSE k \in 1..Len(dict) : dict[k][1] = key][2]
    ELSE 0

Increment(dict, key) ==
    IF key \in Keys(dict)
    THEN [k \in 1..Len(dict) |->
            IF dict[k][1] = key THEN <<key, dict[k][2] + 1>> ELSE dict[k]]
    ELSE Append(dict, <<key, 1>>)

RECURSIVE CountFrom(_, _, _)
CountFrom(seq, k, dict) ==
    IF k > Len(seq) THEN dict ELSE CountFrom(seq, k + 1, Increment(dict, seq[k]))

\* a counter per key, starting at 0 for an unseen key, one increment per occurrence
get_count_dict(seq) == CountFrom(seq, 1, <<>>)

\* MLE of (c_1 .. c_{n-1}, w): count(c_1 .. c_{n-1}, w) / count(c_1 .. c_{n-1}),
\* the denominator read from the table of order n-1
get_MLE_dict(lowerCountDict, countDict, ord) ==
    IF Len(countDict) = 0 THEN <<>>
    ELSE [k \in 1..Len(countDict) |->
            <<countDict[k][1],
              <<countDict[k][2],
                Lookup(lowerCountDict, SubSeq(countDict[k][1], 1, ord - 1))>> >>]

\* weights a backoff weight may take (its formula is not in the sources at hand)
Weights == {0, 1}

\* every key keeps its probability and gains a backoff weight: value[0], value[1]
get_brants_bow_dict(probDict, w) ==
    IF Len(probDict) = 0 THEN <<>>
    ELSE [k \in 1..Len(probDict) |-> <<probDict[k][1], <<probDict[k][2], w[k]>> >>]

RECURSIVE SumValues(_, _)
SumValues(dict, k) == IF k > Len(dict) THEN 0 ELSE dict[k][2] + SumValues(dict, k + 1)

----------------------------------------------------------------------------
(* main and get_ngram_tuples, statement by statement *)

Chars == {"a", " ", "\n"}
Corpora == SeqsUpTo(Chars, MaxCorpusLen)
CorpusFiles == SeqsUpTo(Chars, MaxFileLen)

lmBlank ==
    /\ lines = <<>> /\ todo = <<>>
    /\ unigrams = <<>> /\ bigrams = <<>> /\ trigrams = <<>>
    /\ uniCountDict = <<>> /\ biCountDict = <<>> /\ triCountDict = <<>>
    /\ N = 0
    /\ uniProbDict = <<>> /\ biMLEdict = <<>> /\ triMLEdict = <<>>
    /\ uniBowDict = <<>> /\ biBowDict = <<>>
ioBlank == outFile = <<>> /\ disk = [exists |-> FALSE, content |-> <<>>]
fnBlank == tokens = <<>> /\ n = 1 /\ ngrams = <<>>
sylBlank == word = <<>> /\ i = 0 /\ j = 0 /\ lenWord = 0

\* main, lines 157-160: the corpus file is read whole into lines
OpenCorpus ==
    /\ pc = "open_corpus"
    /\ \E text \in CorpusFiles : lines' = text
    /\ pc' = "get_ngram_tuples"
    /\ UNCHANGED <<lenSentenceCutoff, backoff, todo, unigrams, bigrams, trigrams,
                   uniCountDict, biCountDict, triCountDict, N,
                   uniProbDict, biMLEdict, triMLEdict, uniBowDict, biBowDict,
                   ioVars, fnVars, sylVars>>

\* main, line 157: open(fileName) raises when the file is missing
OpenCorpusFails ==
    /\ pc = "open_corpus"
    /\ pc' = "corpus_missing"
    /\ UNCHANGED <<lmVars, ioVars, fnVars, sylVars>>

\* get_ngram_tuples, lines 57-60
EnterGetNgramTuples ==
    /\ pc = "get_ngram_tuples"
    /\ todo' = Split(lines, "\n")
    /\ unigrams' = <<>> /\ bigrams' = <<>> /\ trigrams' = <<>>
    /\ pc' = "for_line"
    /\ UNCHANGED <<lines, lenSentenceCutoff, backoff,
                   uniCountDict, biCountDict, triCountDict, N,
                   uniProbDict, biMLEdict, triMLEdict, uniBowDict, biBowDict,
                   ioVars, fnVars, sylVars>>

LoopLineCutoffOnUnigramsOnly ==
    /\ pc = "for_line"
    /\ todo # <<>>
    /\ LET line == Split(Head(todo), " ")
       IN  /\ IF LongEnough(line, lenSentenceCutoff)
              THEN unigrams' = unigrams \o get_ngrams_from_line(line, 1)
              ELSE UNCHANGED unigrams
           /\ bigrams' = bigrams \o get_ngrams_from_line(line, 2)
           /\ trigrams' = trigrams \o get_ngrams_from_line(line, 3)
    /\ todo' = Tail(todo)
    /\ UNCHANGED <<pc, lines, lenSentenceCutoff, backoff,
                   uniCountDict, biCountDict, triCountDict, N,
                   uniProbDict, biMLEdict, triMLEdict, uniBowDict, biBowDict,
                   ioVars, fnVars, sylVars>>

\* get_ngram_tuples, lines 60-65: one turn of the for loop
LoopLine ==
    /\ pc = "for_line"
    /\ todo # <<>>
    /\ LET line == Split(Head(todo), " ")
       IN  IF LongEnough(line, lenSentenceCutoff)
           THEN /\ unigrams' = unigrams \o get_ngrams_from_line(line, 1)
                /\ bigrams' = bigrams \o get_ngrams_from_line(line, 2)
                /\ trigrams' = trigrams \o get_ngrams_from_line(line, 3)
           ELSE UNCHANGED <<unigrams, bigrams, trigrams>>
    /\ todo' = Tail(todo)
    /\ UNCHANGED <<pc, lines, lenSentenceCutoff, backoff,
                   uniCountDict, biCountDict, triCountDict, N,
                   uniProbDict, biMLEdict, triMLEdict, uniBowDict, biBowDict,
                   ioVars, fnVars, sylVars>>

\* get_ngram_tuples, lines 66-73: the loop is over, the three lists are returned
ReturnNgramTuples ==
    /\ pc = "for_line"
    /\ todo = <<>>
    /\ pc' = "get_count_dict"
    /\ UNCHANGED <<lmVars, ioVars, fnVars, sylVars>>

\* main, lines 167-169
GetCountDicts ==
    /\ pc = "get_count_dict"
    /\ uniCountDict' = get_count_dict(unigrams)
    /\ biCountDict' = get_count_dict(bigrams)
    /\ triCountDict' = get_count_dict(trigrams)
    /\ pc' = "unigram_prob"
    /\ UNCHANGED <<lines, lenSentenceCutoff, backoff, todo, unigrams, bigrams, trigrams,
                   N, uniProbDict, biMLEdict, triMLEdict, uniBowDict, biBowDict,
                   ioVars, fnVars, sylVars>>

\* main, lines 172-175: np.log(value/N) is evaluated once per key, never for no key
UnigramProb ==
    /\ pc = "unigram_prob"
    /\ N' = SumValues(uniCountDict, 1)
    /\ uniProbDict' =
          IF Len(uniCountDict) = 0 THEN <<>>
          ELSE [k \in 1..Len(uniCountDict) |->
                  <<uniCountDict[k][1], <<uniCountDict[k][2], SumValues(uniCountDict, 1)>> >>]
    /\ pc' = "get_MLE_dict"
    /\ UNCHANGED <<lines, lenSentenceCutoff, backoff, todo, unigrams, bigrams, trigrams,
                   uniCountDict, biCountDict, triCountDict,
                   biMLEdict, triMLEdict, uniBowDict, biBowDict,
                   ioVars, fnVars, sylVars>>

\* main, lines 179-180
GetMLEDicts ==
    /\ pc = "get_MLE_dict"
    /\ biMLEdict' = get_MLE_dict(uniCountDict, biCountDict, 2)
    /\ triMLEdict' = get_MLE_dict(biCountDict, triCountDict, 3)
    /\ pc' = "get_brants_bow_dict"
    /\ UNCHANGED <<lines, lenSentenceCutoff, backoff, todo, unigrams, bigrams, trigrams,
                   uniCountDict, biCountDict, triCountDict, N, uniProbDict,
                   uniBowDict, biBowDict, ioVars, fnVars, sylVars>>

\* main, lines 183-184
GetBowDicts ==
    /\ pc = "get_brants_bow_dict"
    /\ \E w1 \in [1..Len(uniProbDict) -> Weights], w2 \in [1..Len(biMLEdict) -> Weights] :
          /\ uniBowDict' = get_brants_bow_dict(uniProbDict, w1)
          /\ biBowDict' = get_brants_bow_dict(biMLEdict, w2)
    /\ pc' = "print_to_file"
    /\ UNCHANGED <<lines, lenSentenceCutoff, backoff, todo, unigrams, bigrams, trigrams,
                   uniCountDict, biCountDict, triCountDict, N,
                   uniProbDict, biMLEdict, triMLEdict, ioVars, fnVars, sylVars>>


----------------------------------------------------------------------------
(* print_to_file *)

\* a < b and a = b for two log-probabilities <<num, den>>, den > 0
FracLess(p, q) == p[1] * q[2] < q[1] * p[2]
FracEq(p, q) == p[1] * q[2] = q[1] * p[2]

\* Python's < and == on the values operator.itemgetter(1) returns: a pair
\* (probability, backoff weight) in the tables of orders 1 and 2, compared as
\* tuples; a probability in the table of order 3
ValueLess(ord, v, w) ==
    IF ord = 3 THEN FracLess(v, w)
    ELSE FracLess(v[1], w[1]) \/ (FracEq(v[1], w[1]) /\ v[2] < w[2])
ValueEq(ord, v, w) ==
    IF ord = 3 THEN FracEq(v, w)
    ELSE FracEq(v[1], w[1]) /\ v[2] = w[2]

\* item goes before the first element with a smaller value: behind its equals
InsertDescending(ord, acc, item) ==
    LET smaller == {k \in 1..Len(acc) : ValueLess(ord, acc[k][2], item[2])}
        at == IF smaller = {} THEN Len(acc) + 1
              ELSE CHOOSE k \in smaller : \A m \in smaller : k <= m
    IN  SubSeq(acc, 1, at - 1) \o <<item>> \o SubSeq(acc, at, Len(acc))

InsertBeforeEquals(ord, acc, item) ==
    LET notLarger == {k \in 1..Len(acc) : ~ValueLess(ord, item[2], acc[k][2])}
        at == IF notLarger = {} THEN Len(acc) + 1
              ELSE CHOOSE k \in notLarger : \A m \in notLarger : k <= m
    IN  SubSeq(acc, 1, at - 1) \o <<item>> \o SubSeq(acc, at, Len(acc))

\* one element more into a list sorted so far
InsertSorted(ord, acc, item) == InsertDescending(ord, acc, item)

RECURSIVE SortFrom(_, _, _, _)
SortFrom(ord, items, k, acc) ==
    IF k > Len(items) THEN acc
    ELSE SortFrom(ord, items, k + 1, InsertSorted(ord, acc, items[k]))

\* sorted(d.items(), key=operator.itemgetter(1), reverse=True): by value,
\* largest first; Python's sort is stable, with reverse=True too
sorted(ord, dict) == SortFrom(ord, dict, 1, <<>>)

\* one outFile.write(...): what it writes
Written(kind, ord, cnt, lp, toks, bw) ==
    [kind |-> kind, order |-> ord, count |-> cnt, logprob |-> lp, toks |-> toks, bow |-> bw]

PreambleLine == Written("data", 0, 0, <<0, 1>>, <<>>, <<>>)
SectionLine(ord) == Written("section", ord, 0, <<0, 1>>, <<>>, <<>>)
EndLine == Written("end", 0, 0, <<0, 1>>, <<>>, <<>>)

CountLineOfBigrams(ord, uni, bi, tri) ==
    Written("count", ord, IF ord = 1 THEN Len(uni) ELSE Len(bi), <<0, 1>>, <<>>, <<>>)

\* 'ngram 1=' + str(len(uniBowDict)) and the two lines after it
CountLine(ord, uni, bi, tri) ==
    Written("count", ord,
            IF ord = 1 THEN Len(uni) ELSE IF ord = 2 THEN Len(bi) ELSE Len(tri),
            <<0, 1>>, <<>>, <<>>)

EntryAlwaysWeighted(ord, item, bo) ==
    IF ord = 3
    THEN Written("row", ord, 0, item[2], SubSeq(item[1], 1, 3), <<>>)
    ELSE Written("row", ord, 0, item[2][1], SubSeq(item[1], 1, ord), <<item[2][2]>>)

\* entry: the row of one (key, value) of the table of order ord
Entry(ord, item, bo) ==
    IF ord = 3
    THEN Written("row", ord, 0, item[2], SubSeq(item[1], 1, 3), <<>>)
    ELSE IF bo
         THEN Written("row", ord, 0, item[2][1], SubSeq(item[1], 1, ord), <<item[2][2]>>)
         ELSE Written("row", ord, 0, item[2][1], SubSeq(item[1], 1, ord), <<>>)

Rows(ord, items, bo) ==
    IF Len(items) = 0 THEN <<>> ELSE [k \in 1..Len(items) |-> Entry(ord, items[k], bo)]

\* every write of print_to_file, in the order the code makes them
Document(uni, bi, tri, bo) ==
    <<PreambleLine, CountLine(1, uni, bi, tri), CountLine(2, uni, bi, tri),
      CountLine(3, uni, bi, tri)>>
    \o <<SectionLine(1)>> \o Rows(1, sorted(1, uni), bo)
    \o <<SectionLine(2)>> \o Rows(2, sorted(2, bi), bo)
    \o <<SectionLine(3)>> \o Rows(3, sorted(3, tri), bo)
    \o <<EndLine>>

Doc == Document(uniBowDict, biBowDict, triMLEdict, backoff)

\* line 100: open(name, 'w') creates the file under its final name, or empties it
OpenOutFile ==
    /\ pc = "print_to_file"
    /\ disk' = [exists |-> TRUE, content |-> <<>>]
    /\ outFile' = <<>>
    /\ pc' = "writing"
    /\ UNCHANGED <<lmVars, fnVars, sylVars>>

\* line 100: open raises (no permission, no such directory); nothing is created
OpenOutFileFails ==
    /\ pc = "print_to_file"
    /\ pc' = "open_failed"
    /\ UNCHANGED <<lmVars, ioVars, fnVars, sylVars>>

\* lines 105-141: the next outFile.write
Write ==
    /\ pc = "writing"
    /\ LET doc == Doc
       IN  /\ Len(outFile) < Len(doc)
           /\ outFile' = Append(outFile, doc[Len(outFile) + 1])
    /\ UNCHANGED <<pc, disk, lmVars, fnVars, sylVars>>

\* what the file holds when a write (or the flush of the closing stream) raises:
\* the stream is buffered, so any part of what was written may have reached it
LeftOnDisk(stream, d) == SubSeq(stream, 1, d)

WriteFailsFileUntouched ==
    /\ pc = "writing"
    /\ outFile' = <<>>
    /\ disk' = [exists |-> FALSE, content |-> <<>>]
    /\ pc' = "write_failed"
    /\ UNCHANGED <<lmVars, fnVars, sylVars>>

\* lines 105-141: a write raises; the with block closes the stream and the
\* exception leaves print_to_file
WriteFails ==
    /\ pc = "writing"
    /\ LET docLen == Len(Doc)
       IN  \E d \in 0..Len(outFile) :
              /\ d < docLen
              /\ disk' = [exists |-> TRUE, content |-> LeftOnDisk(outFile, d)]
    /\ outFile' = <<>>
    /\ pc' = "write_failed"
    /\ UNCHANGED <<lmVars, fnVars, sylVars>>

\* lines 141-143: the with block ends, the stream is flushed and closed
CloseOutFile ==
    /\ pc = "writing"
    /\ Len(outFile) = Len(Doc)
    /\ disk' = [exists |-> TRUE, content |-> outFile]
    /\ outFile' = <<>>
    /\ pc' = "done"
    /\ UNCHANGED <<lmVars, fnVars, sylVars>>

----------------------------------------------------------------------------
(* The pipeline of main *)

Init ==
    /\ pc = "open_corpus"
    /\ lenSentenceCutoff = lenSentenceCutoffMain
    /\ backoff \in BOOLEAN
    /\ lmBlank /\ ioBlank /\ fnBlank /\ sylBlank

Next ==
    \/ OpenCorpus \/ OpenCorpusFails
    \/ EnterGetNgramTuples \/ LoopLine \/ ReturnNgramTuples
    \/ GetCountDicts \/ UnigramProb \/ GetMLEDicts \/ GetBowDicts
    \/ OpenOutFile \/ OpenOutFileFails \/ Write \/ WriteFails \/ CloseOutFile

Spec == Init /\ [][Next]_vars


----------------------------------------------------------------------------
(* get_ngram_tuples and the counting of main, for any corpus and any cutoff *)

InitCount ==
    /\ pc = "get_ngram_tuples"
    /\ lines \in Corpora
    /\ lenSentenceCutoff \in 0..MaxCutoff
    /\ backoff = FALSE
    /\ todo = <<>>
    /\ unigrams = <<>> /\ bigrams = <<>> /\ trigrams = <<>>
    /\ uniCountDict = <<>> /\ biCountDict = <<>> /\ triCountDict = <<>>
    /\ N = 0
    /\ uniProbDict = <<>> /\ biMLEdict = <<>> /\ triMLEdict = <<>>
    /\ uniBowDict = <<>> /\ biBowDict = <<>>
    /\ ioBlank /\ fnBlank /\ sylBlank

NextCount ==
    \/ EnterGetNgramTuples \/ LoopLine \/ ReturnNgramTuples
    \/ GetCountDicts \/ UnigramProb \/ GetMLEDicts

SpecCount == InitCount /\ [][NextCount]_vars

----------------------------------------------------------------------------
(* get_ngrams_from_line, for any token list and any order *)

TokenA == <<"a">>
TokenB == <<"b">>

InitExtract ==
    /\ pc = "get_ngrams_from_line"
    /\ tokens \in SeqsUpTo({TokenA, TokenB, <<>>}, MaxTokens)
    /\ n \in 1..3
    /\ ngrams = <<>>
    /\ lenSentenceCutoff = lenSentenceCutoffMain /\ backoff = FALSE
    /\ lmBlank /\ ioBlank /\ sylBlank

\* lines 76-90: the call returns
CallGetNgramsFromLine ==
    /\ pc = "get_ngrams_from_line"
    /\ ngrams' = get_ngrams_from_line(tokens, n)
    /\ pc' = "returned"
    /\ UNCHANGED <<tokens, n, lmVars, ioVars, sylVars>>

NextExtract == CallGetNgramsFromLine

SpecExtract == InitExtract /\ [][NextExtract]_vars

----------------------------------------------------------------------------
(* print_to_file, for any three tables and either flag *)

\* every table with distinct keys among keys and values among values
Tables(keys, values) ==
    LET keySeqs == {s \in SeqsUpTo(keys, Cardinality(keys)) :
                       \A p, q \in 1..Len(s) : p # q => s[p] # s[q]}
        Filled(ks) == IF Len(ks) = 0 THEN {<<>>}
                      ELSE {[k \in 1..Len(ks) |-> <<ks[k], vs[k]>>] :
                               vs \in [1..Len(ks) -> values]}
    IN  UNION {Filled(ks) : ks \in keySeqs}

UniKeys == {<<TokenA>>, <<TokenB>>}
BiKeys == {<<TokenA, TokenA>>, <<TokenA, TokenB>>}
TriKeys == {<<TokenA, TokenA, TokenA>>, <<TokenA, TokenA, TokenB>>}
UniValues == {<< <<1, 2>>, 0 >>, << <<1, 4>>, 1 >>}
BiValues == {<< <<1, 2>>, 0 >>, << <<2, 4>>, 1 >>}
TriValues == {<<1, 2>>, <<1, 4>>}

InitPrint ==
    /\ pc = "print_to_file"
    /\ uniBowDict \in Tables(UniKeys, UniValues)
    /\ biBowDict \in Tables(BiKeys, BiValues)
    /\ triMLEdict \in Tables(TriKeys, TriValues)
    /\ backoff \in BOOLEAN
    /\ lenSentenceCutoff = lenSentenceCutoffMain
    /\ lines = <<>> /\ todo = <<>>
    /\ unigrams = <<>> /\ bigrams = <<>> /\ trigrams = <<>>
    /\ uniCountDict = <<>> /\ biCountDict = <<>> /\ triCountDict = <<>>
    /\ N = 0
    /\ uniProbDict = <<>> /\ biMLEdict = <<>>
    /\ ioBlank /\ fnBlank /\ sylBlank

NextPrint == OpenOutFile \/ OpenOutFileFails \/ Write \/ WriteFails \/ CloseOutFile

SpecPrint == InitPrint /\ [][NextPrint]_vars


----------------------------------------------------------------------------
(* kaldi-style/kaz_syllable_split.py *)

\* The script's letters are Cyrillic; each is written here by a Latin name.
\* line 14
consonant == {"p", "b", "d", "t", "k", "g", "kh", "sh", "shch", "zh", "z", "s",
              "ts", "ch", "j", "l", "m", "n", "ng", "f", "v", "r",
              "hard_sign", "soft_sign"}
\* line 15
vowel == {"i", "e", "eh", "oe", "ue", "a", "o", "u", "y"}
\* line 16 ("e" is listed as a vowel and as a glide)
glide == {"yo", "ya", "yu", "e"}

Marker == <<"@", " ", "@">>

\* re.match(rule, w): the compiled patterns of lines 21-27, anchored at the start
Matches(rule, w) ==
    CASE rule = "vcv" ->
            /\ Len(w) >= 3
            /\ w[1] \in vowel \cup glide /\ w[2] \in consonant /\ w[3] \in vowel
      [] rule = "vccv" ->
            /\ Len(w) >= 4
            /\ w[1] \in vowel \cup glide /\ w[2] \in consonant
            /\ w[3] \in consonant /\ w[4] \in vowel
      [] rule = "vccc" ->
            /\ Len(w) >= 4
            /\ w[1] \in vowel \cup glide /\ w[2] \in consonant
            /\ w[3] \in consonant /\ w[4] \in consonant
      [] rule = "vgv" ->
            /\ Len(w) >= 2
            /\ w[1] \in vowel \cup glide /\ w[2] \in glide

SylLetters == {"a", "e", "ya", "t"}

InitSyl ==
    /\ pc = "word"
    /\ word \in SeqsUpTo(SylLetters, MaxWordLen) \ {<<>>}
    /\ i = 0 /\ j = 0 /\ lenWord = 0
    /\ lenSentenceCutoff = lenSentenceCutoffMain /\ backoff = FALSE
    /\ lmBlank /\ ioBlank /\ fnBlank

\* lines 32-36: the next word of line.split()
StartWord ==
    /\ pc = "word"
    /\ lenWord' = Len(word) + 1
    /\ i' = 0 /\ j' = 3
    /\ pc' = "vcv"
    /\ UNCHANGED <<word, lmVars, ioVars, fnVars>>

PassStepStuck(rule, at) ==
    /\ pc = rule
    /\ j < lenWord
    /\ IF Matches(rule, Slice(word, i, j))
       THEN /\ word' = Slice(word, 0, i + at) \o Marker \o Slice(word, i + at, Len(word))
            /\ i' = i + 3 /\ j' = j + 3
            /\ lenWord' = lenWord + 3
       ELSE UNCHANGED <<word, i, j, lenWord>>
    /\ UNCHANGED <<pc, lmVars, ioVars, fnVars>>

\* one turn of a while loop: the marker goes in at places behind the window's start
PassStep(rule, at) ==
    /\ pc = rule
    /\ j < lenWord
    /\ IF Matches(rule, Slice(word, i, j))
       THEN /\ word' = Slice(word, 0, i + at) \o Marker \o Slice(word, i + at, Len(word))
            /\ i' = i + 3 /\ j' = j + 3
            /\ lenWord' = lenWord + 3
       ELSE /\ i' = i + 1 /\ j' = j + 1
            /\ UNCHANGED <<word, lenWord>>
    /\ UNCHANGED <<pc, lmVars, ioVars, fnVars>>

\* a while loop ends; the next pass starts with i = 0 and its own window width
PassExit(rule, nextRule, width) ==
    /\ pc = rule
    /\ ~(j < lenWord)
    /\ pc' = nextRule
    /\ i' = 0 /\ j' = width
    /\ UNCHANGED <<word, lenWord, lmVars, ioVars, fnVars>>

\* lines 37-45
StepVCV == PassStep("vcv", 1)
ExitVCV == PassExit("vcv", "vccv", 4)
\* lines 50-58
StepVCCV == PassStep("vccv", 2)
ExitVCCV == PassExit("vccv", "vccc", 4)
\* lines 63-71
StepVCCC == PassStep("vccc", 3)
ExitVCCC == PassExit("vccc", "vgv", 2)
\* lines 76-84
StepVGV == PassStep("vgv", 1)
\* line 86: the last loop ends and the word is printed
PrintWord ==
    /\ pc = "vgv"
    /\ ~(j < lenWord)
    /\ pc' = "printed"
    /\ UNCHANGED <<word, i, j, lenWord, lmVars, ioVars, fnVars>>

NextSyl ==
    \/ StartWord
    \/ StepVCV \/ ExitVCV \/ StepVCCV \/ ExitVCCV
    \/ StepVCCC \/ ExitVCCC \/ StepVGV \/ PrintWord

\* the interpreter runs the script on: a step that can be taken is taken
SpecSyl == InitSyl /\ [][NextSyl]_vars /\ WF_vars(NextSyl)


----------------------------------------------------------------------------
(* Properties *)

\* C1 (SpecCount): one turn of the for loop of get_ngram_tuples adds n-grams
\* (to any of the three lists) if and only if the line it looks at has strictly
\* more tokens than the cutoff; a line of exactly cutoff tokens, or fewer, adds
\* no unigram, no bigram and no trigram.
C1_CutoffIsStrict ==
    [][(pc = "for_line" /\ todo # <<>>) =>
          LET count == Len(Split(Head(todo), " "))
          IN  /\ (count > lenSentenceCutoff) <=>
                     (Len(unigrams') + Len(bigrams') + Len(trigrams')
                        > Len(unigrams) + Len(bigrams) + Len(trigrams))
              /\ (count > lenSentenceCutoff) => Len(unigrams') = Len(unigrams) + count
              /\ (count <= lenSentenceCutoff) =>
                     /\ unigrams' = unigrams
                     /\ bigrams' = bigrams
                     /\ trigrams' = trigrams]_vars

\* a corpus with a line of exactly cutoff tokens (dropped) and a line of
\* cutoff + 1 tokens (kept), after the loop
C1_Witness ==
    /\ pc = "get_count_dict"
    /\ lenSentenceCutoff >= 1
    /\ \E k \in 1..Len(Split(lines, "\n")) :
          Len(Split(Split(lines, "\n")[k], " ")) = lenSentenceCutoff
    /\ \E k \in 1..Len(Split(lines, "\n")) :
          Len(Split(Split(lines, "\n")[k], " ")) = lenSentenceCutoff + 1
    /\ Len(unigrams) = lenSentenceCutoff + 1

\* C2 (SpecExtract): get_ngrams_from_line(tokens, n) returns L-n+1 tuples when
\* L >= n and none when L < n; the tuple at (0-based) place p is
\* tokens[p : p+n], in order, repeated n-grams kept.
C2_ExtractCountAndOrder ==
    pc = "returned" =>
        /\ Len(ngrams) = IF Len(tokens) >= n THEN Len(tokens) - n + 1 ELSE 0
        /\ \A p \in 1..Len(ngrams) :
              /\ Len(ngrams[p]) = n
              /\ \A q \in 1..n : ngrams[p][q] = tokens[p + q - 1]

\* four tokens, bigrams: three of them, the first two equal (nothing is deduplicated)
C2_Witness ==
    /\ pc = "returned"
    /\ n = 2
    /\ Len(tokens) = 4
    /\ Len(ngrams) = 3
    /\ ngrams[1] = ngrams[2]
    /\ ngrams[2] # ngrams[3]

\* C3 (SpecCount): every n-gram of the count table of order 2 or 3 has its
\* prefix in the table of order n-1, counted at least as often; so no MLE has
\* a zero denominator and none exceeds 1.
C3_PrefixCounted ==
    /\ \A k \in 1..Len(biCountDict) :
          /\ Lookup(uniCountDict, SubSeq(biCountDict[k][1], 1, 1)) >= biCountDict[k][2]
          /\ biCountDict[k][2] >= 1
    /\ \A k \in 1..Len(triCountDict) :
          /\ Lookup(biCountDict, SubSeq(triCountDict[k][1], 1, 2)) >= triCountDict[k][2]
          /\ triCountDict[k][2] >= 1
    /\ \A k \in 1..Len(biMLEdict) :
          biMLEdict[k][2][2] > 0 /\ biMLEdict[k][2][1] <= biMLEdict[k][2][2]
    /\ \A k \in 1..Len(triMLEdict) :
          triMLEdict[k][2][2] > 0 /\ triMLEdict[k][2][1] <= triMLEdict[k][2][2]

\* MLEs are computed; a bigram seen twice whose prefix was seen three times,
\* and a line the cutoff dropped
C3_Witness ==
    /\ pc = "get_brants_bow_dict"
    /\ \E k \in 1..Len(biMLEdict) : biMLEdict[k][2] = <<2, 3>>
    /\ Len(triMLEdict) >= 1
    /\ Len(Split(lines, "\n")) >= 2

\* the tokens of the lines with more than cutoff tokens, counted on the text:
\* a line has one token more than it has blanks
RECURSIVE RetainedTokens(_, _, _, _)
RetainedTokens(text, k, blanks, cutoff) ==
    IF k > Len(text)
    THEN IF blanks + 1 > cutoff THEN blanks + 1 ELSE 0
    ELSE IF text[k] = "\n"
         THEN (IF blanks + 1 > cutoff THEN blanks + 1 ELSE 0)
              + RetainedTokens(text, k + 1, 0, cutoff)
         ELSE RetainedTokens(text, k + 1, IF text[k] = " " THEN blanks + 1 ELSE blanks, cutoff)

\* C4 (SpecCount): N, the sum of the unigram counts, is the number of token
\* occurrences of the retained lines: dropped lines add nothing, a repeated
\* token counts every time.
C4_SumOfUnigramCounts ==
    pc \in {"get_MLE_dict", "get_brants_bow_dict"} =>
        N = RetainedTokens(lines, 1, 0, lenSentenceCutoff)

\* a kept line with a repeated token and a dropped line that has tokens too
C4_Witness ==
    /\ pc = "get_MLE_dict"
    /\ N >= 3
    /\ Len(uniCountDict) < N
    /\ lenSentenceCutoff >= 1
    /\ N < RetainedTokens(lines, 1, 0, 0)

----------------------------------------------------------------------------
(* Properties of the written document *)

\* the order of the section a line at place p stands in: that of the last
\* section line before it (0 before the first)
RECURSIVE SectionAt(_, _)
SectionAt(doc, p) ==
    IF p = 0 THEN 0
    ELSE IF doc[p].kind = "section" THEN doc[p].order
    ELSE SectionAt(doc, p - 1)

\* the places of the rows of the section of order ord, in file order
RowPlaces(doc, ord) ==
    {p \in 1..Len(doc) : doc[p].kind = "row" /\ SectionAt(doc, p) = ord}

TableOf(ord) == IF ord = 1 THEN uniBowDict ELSE IF ord = 2 THEN biBowDict ELSE triMLEdict

\* C5 (SpecPrint): the numbers in the lines 'ngram 1=', 'ngram 2=', 'ngram 3='
\* are the numbers of rows written in the sections of orders 1, 2 and 3.
C5_HeaderCountsRows ==
    pc = "done" =>
        \A ord \in 1..3 :
            /\ Cardinality({p \in 1..Len(disk.content) :
                              disk.content[p].kind = "count" /\ disk.content[p].order = ord}) = 1
            /\ \A p \in 1..Len(disk.content) :
                  (disk.content[p].kind = "count" /\ disk.content[p].order = ord) =>
                      disk.content[p].count = Cardinality(RowPlaces(disk.content, ord))

\* a document whose three sections have 2, 1 and 0 rows
C5_Witness ==
    /\ pc = "done"
    /\ Cardinality(RowPlaces(disk.content, 1)) = 2
    /\ Cardinality(RowPlaces(disk.content, 2)) = 1
    /\ Cardinality(RowPlaces(disk.content, 3)) = 0
    /\ disk.content[4].count = 0

\* s < t for two sequences, element by element; rank orders the elements
RECURSIVE LexLess(_, _, _)
CharRank(c) == CASE c = "\n" -> 10 [] c = " " -> 32 [] c = "a" -> 97 [] c = "b" -> 98
TokenLess(s, t) ==
    \E k \in 1..(Len(t)) :
        /\ \A m \in 1..(k - 1) : m <= Len(s) /\ s[m] = t[m]
        /\ (k > Len(s) \/ CharRank(s[k]) < CharRank(t[k]))
LexLess(s, t, k) ==
    IF k > Len(t) THEN FALSE
    ELSE IF k > Len(s) THEN TRUE
    ELSE IF s[k] = t[k] THEN LexLess(s, t, k + 1)
    ELSE TokenLess(s[k], t[k])

\* C6 as claimed (SpecPrint): in every section the rows stand in descending
\* order of probability, and two rows of equal probability stand in the
\* lexicographic order of their n-grams.
C6_TiesLexicographic ==
    pc = "done" =>
        \A ord \in 1..3 :
            \A p, q \in RowPlaces(disk.content, ord) :
                p < q =>
                    /\ ~FracLess(disk.content[p].logprob, disk.content[q].logprob)
                    /\ FracEq(disk.content[p].logprob, disk.content[q].logprob) =>
                          LexLess(disk.content[p].toks, disk.content[q].toks, 1)

\* where the key of the row at place p stands in its table
PlaceInTable(ord, row) ==
    CHOOSE k \in 1..Len(TableOf(ord)) : TableOf(ord)[k][1] = row.toks

\* C6 as amended (SpecPrint): in every section there is one row per entry of
\* the table; the rows stand in descending order of the value sorted on (the
\* probability in the section of order 3, the pair of probability and backoff
\* weight in the sections of orders 1 and 2, so probabilities never ascend);
\* rows of equal value stand in the order of insertion into the table.
C6_DescendingStable ==
    pc = "done" =>
        \A ord \in 1..3 :
            /\ Keys(TableOf(ord)) = {disk.content[p].toks : p \in RowPlaces(disk.content, ord)}
            /\ Cardinality(RowPlaces(disk.content, ord)) = Len(TableOf(ord))
            /\ \A p, q \in RowPlaces(disk.content, ord) :
                  p < q =>
                      LET a == PlaceInTable(ord, disk.content[p])
                          b == PlaceInTable(ord, disk.content[q])
                      IN  /\ ~FracLess(disk.content[p].logprob, disk.content[q].logprob)
                          /\ ~ValueLess(ord, TableOf(ord)[a][2], TableOf(ord)[b][2])
                          /\ ValueEq(ord, TableOf(ord)[a][2], TableOf(ord)[b][2]) => a < b

\* two unigrams of equal value, b inserted before a: b is written before a
C6_Witness ==
    /\ pc = "done"
    /\ Len(uniBowDict) = 2
    /\ uniBowDict[1][1] = <<TokenB>>
    /\ uniBowDict[2][1] = <<TokenA>>
    /\ uniBowDict[1][2] = uniBowDict[2][2]
    /\ disk.content[6].toks = <<TokenB>>
    /\ disk.content[7].toks = <<TokenA>>

\* C7 (SpecPrint): no row of the 3-grams section carries a backoff weight,
\* with either flag; a row of the 1-grams or 2-grams section carries one
\* exactly when the flag is set; every row carries its log-probability and as
\* many tokens as its order.
C7_BackoffColumn ==
    \A doc \in {outFile, disk.content} :
        \A p \in 1..Len(doc) :
            doc[p].kind = "row" =>
                /\ doc[p].order = SectionAt(doc, p)
                /\ Len(doc[p].toks) = doc[p].order
                /\ doc[p].order = 3 => doc[p].bow = <<>>
                /\ doc[p].order \in {1, 2} => (Len(doc[p].bow) = 1 <=> backoff)
                /\ doc[p].order \in {1, 2} => Len(doc[p].bow) <= 1

\* the flag is set and every section has a row
C7_Witness ==
    /\ pc = "done"
    /\ backoff
    /\ \A ord \in 1..3 : RowPlaces(disk.content, ord) # {}
    /\ \E p \in RowPlaces(disk.content, 1) : disk.content[p].bow = <<1>>


----------------------------------------------------------------------------
(* Properties of main and of failing writes *)

EmptyDocument ==
    <<PreambleLine,
      Written("count", 1, 0, <<0, 1>>, <<>>, <<>>),
      Written("count", 2, 0, <<0, 1>>, <<>>, <<>>),
      Written("count", 3, 0, <<0, 1>>, <<>>, <<>>),
      SectionLine(1), SectionLine(2), SectionLine(3), EndLine>>

C9_NoTruncatedFile ==
    pc = "write_failed" =>
        \/ ~disk.exists
        \/ disk.content = <<>>
        \/ disk.content = Doc

\* C9 as amended (SpecPrint): once open has succeeded the file exists under
\* its final name; after a failed write it holds a proper prefix of the
\* document, in write order and without the end line (it may be empty, it may
\* be the header and some rows); only a run whose writes all succeed leaves
\* the complete document, ending in the end line; only a failed open leaves
\* the name untouched.
C9_TruncatedPrefixLeft ==
    /\ pc \in {"writing", "write_failed", "done"} => disk.exists
    /\ pc = "write_failed" =>
          /\ Len(disk.content) < Len(Doc)
          /\ disk.content = SubSeq(Doc, 1, Len(disk.content))
          /\ \A p \in 1..Len(disk.content) : disk.content[p].kind # "end"
    /\ pc = "done" =>
          /\ disk.content = Doc
          /\ disk.content[Len(disk.content)].kind = "end"
    /\ pc \in {"print_to_file", "open_failed"} => ~disk.exists

\* a write failed and the file holds the header and the rows of the first
\* section, the last of them a row
C9_Witness ==
    /\ pc = "write_failed"
    /\ disk.exists
    /\ Len(disk.content) = 7
    /\ disk.content[1].kind = "data"
    /\ disk.content[7].kind = "row"

----------------------------------------------------------------------------
(* Properties of the syllable splitter *)

\* C10 (SpecSyl): for every word the four while loops end and the word is
\* printed, although each match lengthens the word and raises lenWord with i
\* and j.
C10_EveryWordIsPrinted == <>(pc = "printed")

Occurrences(w, c) == Cardinality({k \in 1..Len(w) : w[k] = c})

\* a printed word in which the passes put three markers
C10_Witness ==
    /\ pc = "printed"
    /\ Occurrences(word, " ") = 3
    /\ lenWord = Len(word) + 1

====
